---- MODULE Spec2Model ----
(***************************************************************************)
(* A model of spei/utils.py: the series/index validators, the yearly       *)
(* regrouper and its flattener, and the distribution fit-testers.          *)
(*                                                                         *)
(* Every function of the module is stateless.  A behaviour is one call:    *)
(* the state holds the function called (op), its argument (arg) and what   *)
(* the call produced (ret: a returned value or a raised exception, plus    *)
(* the log records emitted on the way).  For the regrouper followed by the *)
(* flattener, mid is what the regrouper handed on.                         *)
(*                                                                         *)
(* Python values are records with a "tag" (their type).  Python strings    *)
(* that the code takes apart (strftime output, the strings handed to       *)
(* to_datetime) are sequences of one-character strings; messages and names *)
(* are TLA+ strings.  A table cell or p-value that may be missing is a     *)
(* sequence: <<>> is NaN, <<v>> holds v.                                   *)
(***************************************************************************)
EXTENDS Integers, Sequences, FiniteSets, TLC

VARIABLES pc, op, arg, mid, ret

vars == <<pc, op, arg, mid, ret>>

(***************************************************************************)
(* Bounds of the inputs.                                                   *)
(***************************************************************************)
MaxTableRows == 3
MaxTableCols == 2
MaxLabels == 3
MaxEntries == 2
MaxYearCols == 2
MaxYears == 3
MaxDists == 2

(***************************************************************************)
(* Small helpers on sequences.                                             *)
(***************************************************************************)
Range(s) == {s[i] : i \in 1..Len(s)}

Indices(s) == [i \in 1..Len(s) |-> i]

(* The sequence s with every element computed once *)
List(s) == s \o <<>>

(* seq[mask]: numpy boolean indexing *)
BoolIndex(s, mask) ==
  LET keep == SelectSeq(Indices(s), LAMBDA i : mask[i])
  IN  [j \in 1..Len(keep) |-> s[keep[j]]]

(***************************************************************************)
(* Outcomes of a call.                                                     *)
(***************************************************************************)
None == [tag |-> "NoneType"]

Return(v, log) == [kind |-> "return", value |-> v, exc |-> "", log |-> log]

Raise(e, log) == [kind |-> "raise", value |-> None, exc |-> e, log |-> log]

LogRecord(level, msg) == [level |-> level, msg |-> msg]

(***************************************************************************)
(* Python and pandas values.                                               *)
(***************************************************************************)
Series(index, values, name) ==
  [tag |-> "Series", index |-> index, values |-> values, name |-> name]

(* data[c][r] is the cell of column c, row r *)
DataFrame(index, columns, data) ==
  [tag |-> "DataFrame", index |-> index, columns |-> columns, data |-> data]

Scalar(v) == [tag |-> "numpy.int64", value |-> v]

(* Types with a .copy() method: pandas objects, numpy arrays and scalars,  *)
(* list, dict, set.  tuple, int, float, str and None have none.            *)
HasCopy(x) ==
  x.tag \in {"Series", "DataFrame", "Index", "DatetimeIndex", "numpy.int64",
             "ndarray", "list", "dict", "set"}

(* x.copy(): a new object equal to x *)
copy(x) == x

(* DataFrame.squeeze(): every axis of length 1 is dropped *)
squeeze(df) ==
  LET nrows == Len(df.index)
      ncols == Len(df.columns)
  IN  IF ncols = 1 /\ nrows = 1 THEN Scalar(df.data[1][1])
      ELSE IF ncols = 1 THEN Series(df.index, df.data[1], df.columns[1])
      ELSE IF nrows = 1
        THEN Series(df.columns, [c \in 1..ncols |-> df.data[c][1]], df.index[1])
      ELSE df

SqueezeWarning ==
  LogRecord("WARNING",
    "Please convert series of type pandas.DataFrame to a"
    \o "pandas.Series using DataFrame.squeeze(). Now done automatically.")

validate_series_anycol(series) ==
  IF ~HasCopy(series) THEN Raise("AttributeError", <<>>)
  ELSE LET s == copy(series)
       IN  IF s.tag = "Series" THEN Return(s, <<>>)
           ELSE IF s.tag = "DataFrame"
             THEN IF Len(s.columns) >= 1
                    THEN Return(squeeze(DataFrame(s.index, <<s.columns[1]>>,
                                                  <<s.data[1]>>)),
                                <<SqueezeWarning>>)
                    ELSE Raise("TypeError", <<>>)
           ELSE Raise("TypeError", <<>>)

validate_series(series) ==
  IF ~HasCopy(series) THEN Raise("AttributeError", <<>>)
  ELSE LET s == copy(series)
       IN  IF s.tag = "Series" THEN Return(s, <<>>)
           ELSE IF s.tag = "DataFrame"
             THEN IF Len(s.columns) = 1
                    THEN Return(squeeze(s), <<SqueezeWarning>>)
                    ELSE Raise("TypeError", <<>>)
           ELSE Raise("TypeError", <<>>)

(***************************************************************************)
(* Strings as character sequences, and the calendar.                       *)
(***************************************************************************)
Digits == <<"0", "1", "2", "3", "4", "5", "6", "7", "8", "9">>

IsDigit(c) == \E i \in 1..10 : Digits[i] = c

DigitVal(c) == (CHOOSE i \in 1..10 : Digits[i] = c) - 1

IsNumber(cs) == Len(cs) > 0 /\ \A i \in 1..Len(cs) : IsDigit(cs[i])

(* int(cs) for a string of decimal digits *)
RECURSIVE StrToInt(_)
StrToInt(cs) ==
  IF Len(cs) = 0 THEN 0
  ELSE 10 * StrToInt(SubSeq(cs, 1, Len(cs) - 1)) + DigitVal(cs[Len(cs)])

(* str(n) for n >= 0 *)
RECURSIVE IntToStr(_)
IntToStr(n) ==
  IF n < 10 THEN <<Digits[n + 1]>>
  ELSE IntToStr(n \div 10) \o <<Digits[(n % 10) + 1]>>

(* a zero-padded two-digit field of strftime: %m, %d, %H, %M, %S *)
Pad2(n) == <<Digits[(n \div 10) + 1], Digits[(n % 10) + 1]>>

(* cs.split(sep) *)
Split(cs, sep) ==
  LET at == SelectSeq(Indices(cs), LAMBDA i : cs[i] = sep)
      lo(k) == IF k = 1 THEN 1 ELSE at[k - 1] + 1
      hi(k) == IF k = Len(at) + 1 THEN Len(cs) ELSE at[k] - 1
  IN  List([k \in 1..(Len(at) + 1) |-> SubSeq(cs, lo(k), hi(k))])

(* cs.split(sep, 1): at most one split, at the first sep *)
Split1(cs, sep) ==
  LET at == SelectSeq(Indices(cs), LAMBDA i : cs[i] = sep)
  IN  IF Len(at) = 0 THEN <<cs>>
      ELSE <<SubSeq(cs, 1, at[1] - 1), SubSeq(cs, at[1] + 1, Len(cs))>>

isleap_every4(year) == year % 4 = 0

(* calendar.isleap *)
isleap(year) == year % 4 = 0 /\ (year % 100 # 0 \/ year % 400 = 0)

DaysInMonth(year, month) ==
  IF month = 2 THEN (IF isleap(year) THEN 29 ELSE 28)
  ELSE IF month \in {4, 6, 9, 11} THEN 30 ELSE 31

Timestamp(y, mo, d, h, mi, s, ns) ==
  [y |-> y, mo |-> mo, d |-> d, h |-> h, mi |-> mi, s |-> s, ns |-> ns]

Date(y, mo, d) == Timestamp(y, mo, d, 0, 0, 0, 0)

(* chronological order of two timestamps *)
TsLess(a, b) ==
  LET ka == <<a.y, a.mo, a.d, a.h, a.mi, a.s, a.ns>>
      kb == <<b.y, b.mo, b.d, b.h, b.mi, b.s, b.ns>>
  IN  \E i \in 1..7 : ka[i] < kb[i] /\ \A j \in 1..(i - 1) : ka[j] = kb[j]

(* DatetimeIndex.strftime("%m-%d %H:%M:%S") of one timestamp *)
strftime(t) ==
  Pad2(t.mo) \o <<"-">> \o Pad2(t.d) \o <<" ">> \o Pad2(t.h) \o <<":">>
    \o Pad2(t.mi) \o <<":">> \o Pad2(t.s)

(* The fields of a date string "Y-m-d", or <<>> when it names no day of    *)
(* the calendar.                                                           *)
ParseDate(cs) ==
  LET f == Split(cs, "-")
  IN  IF Len(f) # 3 \/ \E i \in 1..3 : ~IsNumber(f[i]) THEN <<>>
      ELSE LET y == StrToInt(f[1])
               mo == StrToInt(f[2])
               d == StrToInt(f[3])
           IN  IF Len(f[1]) = 4 /\ mo \in 1..12 /\ d \in 1..DaysInMonth(y, mo)
                 THEN <<Date(y, mo, d)>> ELSE <<>>

ParseTime(cs) ==
  LET f == Split(cs, ":")
  IN  IF Len(f) # 3 \/ \E i \in 1..3 : ~IsNumber(f[i]) THEN <<>>
      ELSE LET h == StrToInt(f[1])
               mi == StrToInt(f[2])
               s == StrToInt(f[3])
           IN  IF h \in 0..23 /\ mi \in 0..59 /\ s \in 0..59
                 THEN <<<<h, mi, s>>>> ELSE <<>>

(* to_datetime(cs, format="%Y-%m-%d %H:%M:%S") of one string: <<t>>, or    *)
(* <<>> when the string does not match or names no real instant            *)
strptime(cs) ==
  LET p == Split(cs, " ")
  IN  IF Len(p) # 2 THEN <<>>
      ELSE LET dt == ParseDate(p[1])
               tm == ParseTime(p[2])
           IN  IF dt = <<>> \/ tm = <<>> THEN <<>>
               ELSE <<Timestamp(dt[1].y, dt[1].mo, dt[1].d,
                                tm[1][1], tm[1][2], tm[1][3], 0)>>

(* to_datetime of one label without a format: integers count nanoseconds  *)
(* since 1970-01-01, strings are parsed as a date or a date and a time,    *)
(* timestamps stay.  <<>> when the label cannot be parsed.                 *)
ParseLabel(l) ==
  IF l.t = "ts" THEN <<l.ts>>
  ELSE IF l.t = "int"
    THEN <<Timestamp(1970, 1, 1, 0, 0, l.n \div (10 ^ 9), l.n % (10 ^ 9))>>
  ELSE IF Len(Split(l.cs, " ")) = 1 THEN ParseDate(l.cs)
  ELSE strptime(l.cs)

(***************************************************************************)
(* validate_index                                                          *)
(***************************************************************************)
Index(labels) == [tag |-> "Index", labels |-> labels]

DatetimeIndex(labels) == [tag |-> "DatetimeIndex", labels |-> labels]

IntLabel(n) == [t |-> "int", n |-> n]

StrLabel(cs) == [t |-> "str", cs |-> cs]

TsLabel(ts) == [t |-> "ts", ts |-> ts]

(* str(type(x)) *)
TypeRepr(x) ==
  IF x.tag = "Series" THEN "<class 'pandas.core.series.Series'>"
  ELSE IF x.tag = "Index" THEN "<class 'pandas.core.indexes.base.Index'>"
  ELSE "<class '" \o x.tag \o "'>"

CoercionInfo(x) ==
  LogRecord("INFO",
    "Expected the index to be a DatetimeIndex. Automatically converted "
    \o TypeRepr(x) \o " using pd.to_datetime(Index)")

(* The labels to_datetime reads: those of an Index, the values of a Series *)
LabelsOf(x) == IF x.tag = "Series" THEN x.values ELSE x.labels

(* DatetimeIndex(to_datetime(x)): every label parsed, or the parser's      *)
(* error when one label cannot be                                          *)
to_datetime(x) ==
  LET ls == LabelsOf(x)
      parsed == [i \in 1..Len(ls) |-> ParseLabel(ls[i])]
  IN  IF \E i \in 1..Len(ls) : parsed[i] = <<>> THEN <<>>
      ELSE <<DatetimeIndex([i \in 1..Len(ls) |-> TsLabel(parsed[i][1])])>>

validate_index_silent(index) ==
  IF ~HasCopy(index) THEN Raise("AttributeError", <<>>)
  ELSE LET i == copy(index)
       IN  IF i.tag = "DatetimeIndex" THEN Return(i, <<>>)
           ELSE LET conv == to_datetime(i)
                IN  IF conv = <<>> THEN Raise("ValueError", <<>>)
                    ELSE Return(conv[1], <<>>)

validate_index(index) ==
  IF ~HasCopy(index) THEN Raise("AttributeError", <<>>)
  ELSE LET i == copy(index)
       IN  IF i.tag = "DatetimeIndex" THEN Return(i, <<>>)
           ELSE LET conv == to_datetime(i)
                IN  IF conv = <<>>
                      THEN Raise("ValueError", <<CoercionInfo(i)>>)
                      ELSE Return(conv[1], <<CoercionInfo(i)>>)

(***************************************************************************)
(* Inputs of the validators.                                               *)
(***************************************************************************)
Values == {1, 2}

ColName(c) == "s" \o ToString(c)

(* A series of the given values, labelled 1, 2, ... *)
SeriesInput(values) == Series(Indices(values), values, "s")

(* A table of ncols columns s1, s2, ... over the rows 1..nrows *)
TableInput(nrows, ncols, data) ==
  DataFrame([r \in 1..nrows |-> r], [c \in 1..ncols |-> ColName(c)], data)

(* Values that are neither a series nor a table *)
OtherTypes ==
  {"list", "tuple", "int", "float", "str", "NoneType", "dict", "ndarray"}

(* "1970-01-02", "2000-02-29", "2001-02-29" (no such day), "abc",          *)
(* "2000-01-01 12:30:00"                                                   *)
StrLabels ==
  {StrLabel(<<"1", "9", "7", "0", "-", "0", "1", "-", "0", "2">>),
   StrLabel(<<"2", "0", "0", "0", "-", "0", "2", "-", "2", "9">>),
   StrLabel(<<"2", "0", "0", "1", "-", "0", "2", "-", "2", "9">>),
   StrLabel(<<"a", "b", "c">>),
   StrLabel(<<"2", "0", "0", "0", "-", "0", "1", "-", "0", "1", " ",
              "1", "2", ":", "3", "0", ":", "0", "0">>)}

IntLabels == {IntLabel(n) : n \in 1..3}

TsLabels == {TsLabel(Date(2000, 2, 29)), TsLabel(Date(2001, 1, 1))}

(* The index kinds handed to validate_index; the test hands it a Series *)
IndexInput(kind, labels) ==
  IF kind = "DatetimeIndex" THEN DatetimeIndex(labels)
  ELSE IF kind = "Series" THEN SeriesInput(labels)
  ELSE Index(labels)

LabelPool(kind) ==
  IF kind = "DatetimeIndex" THEN TsLabels
  ELSE IF kind = "Index of str" THEN StrLabels
  ELSE IntLabels

(***************************************************************************)
(* One call of a validator.                                                *)
(***************************************************************************)
Init ==
  /\ pc = "idle"
  /\ op = "none"
  /\ arg = None
  /\ mid = None
  /\ ret = None

Call(name, x, result) ==
  /\ op' = name
  /\ arg' = x
  /\ mid' = None
  /\ ret' = result
  /\ pc' = "done"

CallValidateSeries ==
  /\ pc = "idle"
  /\ \/ \E n \in 0..MaxTableRows : \E v \in [1..n -> Values] :
          Call("validate_series", SeriesInput(v), validate_series(SeriesInput(v)))
     \/ \E nrows \in 0..MaxTableRows, ncols \in 0..MaxTableCols :
          \E data \in [1..ncols -> [1..nrows -> Values]] :
            Call("validate_series", TableInput(nrows, ncols, data),
                 validate_series(TableInput(nrows, ncols, data)))
     \/ \E t \in OtherTypes :
          Call("validate_series", [tag |-> t], validate_series([tag |-> t]))

CallValidateIndex ==
  /\ pc = "idle"
  /\ \E kind \in {"DatetimeIndex", "Index of int", "Index of str", "Series"} :
       \E n \in 0..MaxLabels : \E labels \in [1..n -> LabelPool(kind)] :
         Call("validate_index", IndexInput(kind, labels),
              validate_index(IndexInput(kind, labels)))

NextValidate == CallValidateSeries \/ CallValidateIndex

SpecValidate == Init /\ [][NextValidate]_vars

Returned == pc = "done" /\ ret.kind = "return"

Raised(e) == pc = "done" /\ ret.kind = "raise" /\ ret.exc = e

IsTable(x) == x.tag = "DataFrame"

IsSeries(x) == x.tag = "Series"

(* C1: validate_series raises the input-type error (TypeError), and no     *)
(* other failure, for every input that is neither a series nor a table.    *)
C1_OtherInputRaisesTypeError ==
  (op = "validate_series" /\ ~IsSeries(arg) /\ ~IsTable(arg))
    => Raised("TypeError")

(* C2: for every one-column table T, validate_series(T) returns what       *)
(* validate_series(T.squeeze()) returns, that value is a series, and the   *)
(* call on T logs the conversion warning exactly once.                     *)
C2_OneColumnEqualsSqueezed ==
  (op = "validate_series" /\ IsTable(arg) /\ Len(arg.columns) = 1)
    => LET other == validate_series(squeeze(arg))
       IN  /\ Returned
           /\ other.kind = "return"
           /\ IsSeries(ret.value)
           /\ IsSeries(other.value)
           /\ ret.value = other.value
           /\ ret.log = <<SqueezeWarning>>

(* C3: for every table of two or more columns validate_series raises the  *)
(* input-type error (TypeError) and logs no conversion warning; no column  *)
(* is returned.                                                            *)
C3_MultiColumnRaises ==
  (op = "validate_series" /\ IsTable(arg) /\ Len(arg.columns) >= 2)
    => Raised("TypeError") /\ ret.log = <<>>

C3_Witness ==
  /\ op = "validate_series" /\ IsTable(arg)
  /\ Len(arg.columns) = 2 /\ Len(arg.index) = 3
  /\ Raised("TypeError")

(***************************************************************************)
(* group_yearly_df                                                         *)
(***************************************************************************)
NaN == <<>>

RECURSIVE Concat(_)
Concat(seqs) ==
  IF Len(seqs) = 0 THEN <<>> ELSE Head(seqs) \o Concat(Tail(seqs))

IsSortedTs(ts) == \A i \in 1..(Len(ts) - 1) : ~TsLess(ts[i + 1], ts[i])

(* The positions of ts in chronological order, ties in input order (the    *)
(* stable argsort the Grouper applies to an index that is not monotonic).  *)
ArgSort(ts) ==
  IF IsSortedTs(ts) THEN Indices(ts)
  ELSE LET before(j, i) == TsLess(ts[j], ts[i])
                             \/ (~TsLess(ts[i], ts[j]) /\ j < i)
           rank(i) == 1 + Cardinality({j \in 1..Len(ts) : before(j, i)})
       IN  [k \in 1..Len(ts) |-> CHOOSE i \in 1..Len(ts) : rank(i) = k]

(* to_datetime("2000-" + strftime(t), format="%Y-%m-%d %H:%M:%S") *)
ReKey(t) == strptime(<<"2", "0", "0", "0", "-">> \o strftime(t))[1]

(* s without its repeated elements, first occurrences kept in order *)
Unique(s) ==
  BoolIndex(s, [i \in 1..Len(s) |-> \A j \in 1..(i - 1) : s[j] # s[i]])

HasDuplicates(s) == \E i, j \in 1..Len(s) : i < j /\ s[i] = s[j]

(* series.groupby(Grouper(freq="Y")): one group per calendar year from the *)
(* first to the last year of the index, a year without entries giving an   *)
(* empty group; each is <<year, index, values>>.                           *)
GroupByYear(series) ==
  LET order == ArgSort(series.index)
      n == Len(order)
      first == series.index[order[1]].y
      last == series.index[order[n]].y
      members(year) == SelectSeq(order, LAMBDA i : series.index[i].y = year)
  IN  [k \in 1..(last - first + 1) |->
        LET m == members(first + k - 1)
        IN  <<first + k - 1,
              [i \in 1..Len(m) |-> series.index[m[i]]],
              [i \in 1..Len(m) |-> series.values[m[i]]]>>]

(* concat(grs, axis=1): the columns aligned on the union of their indexes. *)
(* Equal indexes are taken as they are.  Otherwise the row order of the    *)
(* union depends on the pandas version (sorted, or in order of first       *)
(* appearance): sortUnion chooses.                                         *)
ConcatColumns(grs, sortUnion) ==
  LET ncols == Len(grs)
      allEqual == \A c \in 1..ncols : grs[c][2] = grs[1][2]
      seen == Unique(Concat([c \in 1..ncols |-> grs[c][2]]))
      order == ArgSort(seen)
      rows == IF allEqual THEN grs[1][2]
              ELSE IF sortUnion THEN [k \in 1..Len(seen) |-> seen[order[k]]]
              ELSE seen
      cell(c, r) ==
        LET hits == SelectSeq(Indices(grs[c][2]),
                              LAMBDA i : grs[c][2][i] = rows[r])
        IN  IF Len(hits) = 0 THEN NaN ELSE grs[c][3][hits[1]]
  IN  IF ~allEqual /\ \E c \in 1..ncols : HasDuplicates(grs[c][2])
        THEN Raise("InvalidIndexError", <<>>)
      ELSE Return(DataFrame(rows, [c \in 1..ncols |-> grs[c][1]],
                            IF allEqual THEN [c \in 1..ncols |-> grs[c][3]]
                            ELSE [c \in 1..ncols |->
                                   [r \in 1..Len(rows) |-> cell(c, r)]]),
                  <<>>)

ReKeyGroups(groups) ==
  [k \in 1..Len(groups) |->
    <<groups[k][1],
      [i \in 1..Len(groups[k][2]) |-> ReKey(groups[k][2][i])],
      groups[k][3]>>]

group_yearly_df_observed(series, sortUnion) ==
  IF Len(series.index) = 0 THEN Raise("ValueError", <<>>)
  ELSE ConcatColumns(
         SelectSeq(ReKeyGroups(GroupByYear(series)), LAMBDA g : Len(g[2]) > 0),
         sortUnion)

group_yearly_df(series, sortUnion) ==
  IF Len(series.index) = 0 THEN Raise("ValueError", <<>>)
  ELSE ConcatColumns(ReKeyGroups(GroupByYear(series)), sortUnion)

(***************************************************************************)
(* get_data_series                                                         *)
(*                                                                         *)
(* A table without a cell makes both list comprehensions empty: array([])  *)
(* is an array of floats, which ~ rejects with a TypeError.                *)
(***************************************************************************)
(* x.split(" ")[0].split("-", 1)[1] == "02-29" *)
IsFeb29(x) == Split1(Split(x, " ")[1], "-")[2] = <<"0", "2", "-", "2", "9">>

(* int(x.split(" ")[0].split("-")[0]) *)
YearOf(x) == StrToInt(Split(Split(x, " ")[1], "-")[1])

Illegal29Feb(x) == IsFeb29(x) /\ ~isleap(YearOf(x))

(* The flattened strings "<col>-<strftime(row)>", column by column *)
FlatIdx(group_df) ==
  LET nrows == Len(group_df.index)
      ncols == Len(group_df.columns)
      rowstr == List([r \in 1..nrows |-> strftime(group_df.index[r])])
      colstr ==
        List([c \in 1..ncols |-> IntToStr(group_df.columns[c]) \o <<"-">>])
  IN  [k \in 1..(ncols * nrows) |->
        colstr[((k - 1) \div nrows) + 1] \o rowstr[((k - 1) % nrows) + 1]]

(* group_df.values.flatten(): the cells row by row *)
FlatValuesRowMajor(group_df) ==
  LET nrows == Len(group_df.index)
      ncols == Len(group_df.columns)
  IN  [k \in 1..(ncols * nrows) |->
        group_df.data[((k - 1) % ncols) + 1][((k - 1) \div ncols) + 1]]

(* group_df.transpose().values.flatten(): the cells column by column *)
FlatValues(group_df) ==
  LET nrows == Len(group_df.index)
      ncols == Len(group_df.columns)
  IN  [k \in 1..(ncols * nrows) |->
        group_df.data[((k - 1) \div nrows) + 1][((k - 1) % nrows) + 1]]

get_data_series(group_df) ==
  LET idx == List(FlatIdx(group_df))
      boolidx == List([k \in 1..Len(idx) |-> ~Illegal29Feb(idx[k])])
      kept == List(BoolIndex(idx, boolidx))
      parsed == List([k \in 1..Len(kept) |-> strptime(kept[k])])
      values == List(BoolIndex(FlatValues(group_df), boolidx))
      notna == List([k \in 1..Len(values) |-> values[k] # NaN])
  IN  IF Len(idx) = 0 THEN Raise("TypeError", <<>>)
      ELSE IF \E k \in 1..Len(kept) : parsed[k] = <<>>
        THEN Raise("ValueError", <<>>)
        ELSE Return(Series(BoolIndex([k \in 1..Len(kept) |-> parsed[k][1]],
                                     notna),
                           BoolIndex(values, notna), ""),
                    <<>>)

(***************************************************************************)
(* Inputs of the regrouper and the flattener.                              *)
(***************************************************************************)
IsDistinct(q) == \A i, j \in 1..Len(q) : i # j => q[i] # q[j]

(* Instants of three observed years around the gap year 2002; the last     *)
(* falls in the same second as 2001-02-28 00:00:00.                        *)
InstantPool ==
  {Date(2000, 2, 28), Date(2000, 2, 29), Date(2001, 2, 28),
   Timestamp(2001, 12, 31, 6, 30, 15, 0), Date(2003, 1, 1),
   Date(2003, 2, 28), Timestamp(2001, 2, 28, 0, 0, 0, 5)}

CellValues == {<<1>>, <<2>>}

(* Columns of a yearly table: 1900 is no leap year, 2000 is one. *)
YearPool == {1900, 2000, 2001}

(* Rows of a yearly table, on the reference year 2000 *)
RowPool ==
  {Date(2000, 2, 28), Date(2000, 2, 29), Timestamp(2000, 12, 31, 6, 30, 15, 0)}

(* Every cell is missing or holds a value of its own, 10 * column + row *)
YearlyTable(rows, cols, present) ==
  DataFrame(rows, cols,
            [c \in 1..Len(cols) |->
              [r \in 1..Len(rows) |->
                IF present[c][r] THEN <<10 * c + r>> ELSE NaN]])

(* The k-th day (k in 1..365) of a year, 29 February left out *)
MonthStart == <<0, 31, 59, 90, 120, 151, 181, 212, 243, 273, 304, 334, 365>>

DayOfYear(year, k) ==
  LET mo == CHOOSE m \in 1..12 : MonthStart[m] < k /\ k <= MonthStart[m + 1]
  IN  Date(year, mo, k - MonthStart[mo])

(* A daily series over the whole years first..first+n-1 without 29         *)
(* February, the k-th entry holding k.                                     *)
WholeYears(first, n) ==
  Series([k \in 1..(365 * n) |->
           DayOfYear(first + ((k - 1) \div 365), ((k - 1) % 365) + 1)],
         [k \in 1..(365 * n) |-> <<k>>], "s")

(***************************************************************************)
(* One call of the regrouper, of the flattener, or of the first on the     *)
(* result of the second.                                                   *)
(***************************************************************************)
CallGroupYearly ==
  /\ pc = "idle"
  /\ \E n \in 0..MaxEntries : \E ix \in [1..n -> InstantPool] :
       /\ IsDistinct(ix)
       /\ \E vs \in [1..n -> CellValues], sortUnion \in BOOLEAN :
            Call("group_yearly_df", Series(ix, vs, "s"),
                 group_yearly_df(Series(ix, vs, "s"), sortUnion))

CallGetDataSeries ==
  /\ pc = "idle"
  /\ \E ncols \in 0..MaxYearCols, nrows \in 0..Cardinality(RowPool) :
       \E cols \in [1..ncols -> YearPool], rows \in [1..nrows -> RowPool] :
         /\ IsDistinct(cols)
         /\ IsDistinct(rows)
         /\ \E present \in [1..ncols -> [1..nrows -> BOOLEAN]] :
              Call("get_data_series", YearlyTable(rows, cols, present),
                   get_data_series(YearlyTable(rows, cols, present)))

(* get_data_series(group_yearly_df(series)), given the regrouper's outcome *)
round_trip(t) == IF t.kind = "raise" THEN t ELSE get_data_series(t.value)

CallRoundTrip ==
  /\ pc = "idle"
  /\ \E first \in {1999, 2000}, n \in 1..MaxYears, sortUnion \in BOOLEAN :
       /\ arg' = WholeYears(first, n)
       /\ mid' = group_yearly_df(WholeYears(first, n), sortUnion)
       /\ ret' = round_trip(mid')
  /\ op' = "round_trip"
  /\ pc' = "done"

NextYearly == CallGroupYearly \/ CallGetDataSeries \/ CallRoundTrip

SpecYearly == Init /\ [][NextYearly]_vars

(***************************************************************************)
(* Properties of the regrouper and the flattener.                          *)
(***************************************************************************)
SortedSeq(S) ==
  [k \in 1..Cardinality(S) |->
    CHOOSE y \in S : Cardinality({z \in S : z < y}) = k - 1]

ObservedYears(series) == {series.index[i].y : i \in 1..Len(series.index)}

(* The row of the yearly table an instant belongs to *)
Slot(t) == Timestamp(2000, t.mo, t.d, t.h, t.mi, t.s, 0)

(* The cells of a yearly table are the entries of the series: every row is *)
(* on the reference year 2000, every entry sits with its value in the      *)
(* column of its year and the row of its day and time, and the table has   *)
(* as many cells that are not missing as the series has entries, so that   *)
(* every other (year, day) combination is a missing cell.                  *)
CellsAreEntries(series, table) ==
  LET n == Len(series.index)
      nrows == Len(table.index)
      ncols == Len(table.columns)
      filled(c) == Len(SelectSeq(table.data[c], LAMBDA x : x # NaN))
      RECURSIVE Sum(_)
      Sum(c) == IF c = 0 THEN 0 ELSE filled(c) + Sum(c - 1)
  IN  /\ \A r \in 1..nrows : table.index[r].y = 2000
      /\ Len(table.data) = ncols
      /\ \A c \in 1..ncols : Len(table.data[c]) = nrows
      /\ \A i \in 1..n :
           \E c \in 1..ncols :
             /\ table.columns[c] = series.index[i].y
             /\ \E r \in 1..nrows :
                  /\ table.index[r] = Slot(series.index[i])
                  /\ table.data[c][r] = series.values[i]
      /\ Sum(ncols) = n

(* The argument is a daily series over whole years without 29 February     *)
(* and without missing values.                                             *)
IsWholeYears(series) ==
  LET n == Len(series.index)
  IN  /\ n > 0 /\ n % 365 = 0
      /\ \A k \in 1..n :
           /\ series.index[k] = DayOfYear(series.index[1].y + ((k - 1) \div 365),
                                          ((k - 1) % 365) + 1)
           /\ series.values[k] # NaN

(* The regrouper has returned a table, on its own or on the way to the     *)
(* flattener.                                                              *)
Regrouped ==
  \/ op = "group_yearly_df" /\ Returned
  \/ op = "round_trip" /\ pc = "done" /\ mid.kind = "return"

YearlyTableOf == IF op = "round_trip" THEN mid.value ELSE ret.value

(* C10 as claimed: the columns of group_yearly_df's table are exactly the  *)
(* observed years (no column for a year without entries), ascending, on    *)
(* one shared row index of the year 2000, missing combinations missing.    *)
C10_ColumnsAreObservedYears ==
  Regrouped
    => /\ YearlyTableOf.columns = SortedSeq(ObservedYears(arg))
       /\ CellsAreEntries(arg, YearlyTableOf)

(* C10 amended: the columns of group_yearly_df's table are all the         *)
(* calendar years from the first to the last observed year, ascending, a   *)
(* year without entries in between giving a column of missing cells only;  *)
(* all columns share one row index on the year 2000 and missing (year,     *)
(* day) combinations are missing cells.                                    *)
C10_ColumnsAreYearRange ==
  Regrouped
    => LET ys == SortedSeq(ObservedYears(arg))
           first == ys[1]
           last == ys[Len(ys)]
       IN  /\ YearlyTableOf.columns =
                [k \in 1..(last - first + 1) |-> first + k - 1]
           /\ CellsAreEntries(arg, YearlyTableOf)
           /\ Len(arg.index) = 3 * 365 /\ IsWholeYears(arg)
                => Len(YearlyTableOf.columns) = 3

C10_Witness ==
  /\ op = "group_yearly_df" /\ Returned
  /\ ObservedYears(arg) = {2001, 2003}
  /\ ret.value.columns = <<2001, 2002, 2003>>
  /\ \A r \in 1..Len(ret.value.index) : ret.value.data[2][r] = NaN

GregorianLeap(y) == (y % 4 = 0 /\ y % 100 # 0) \/ y % 400 = 0

(* A cell that is neither missing nor a 29 February of a common year *)
Yields(table, c, r) ==
  /\ table.data[c][r] # NaN
  /\ ~(/\ table.index[r].mo = 2 /\ table.index[r].d = 29
       /\ ~GregorianLeap(table.columns[c]))

(* The cells of a table column by column, each with its real instant *)
CellsColumnMajor(table) ==
  LET nrows == Len(table.index)
      ncols == Len(table.columns)
  IN  [k \in 1..(ncols * nrows) |->
        LET c == ((k - 1) \div nrows) + 1
            r == ((k - 1) % nrows) + 1
            t == table.index[r]
        IN  [c |-> c, r |-> r, value |-> table.data[c][r],
             at |-> Timestamp(table.columns[c], t.mo, t.d, t.h, t.mi, t.s, 0)]]

YieldingCells(table) ==
  SelectSeq(CellsColumnMajor(table), LAMBDA x : Yields(table, x.c, x.r))

HasCells(table) == Len(table.index) > 0 /\ Len(table.columns) > 0

(* C6: in get_data_series a cell of a 29 February row under a year that is *)
(* no leap year gives no entry, every other cell that is not missing gives *)
(* exactly one, under its own instant: the output is the yielding cells in *)
(* column-major order, timestamp and value together.                       *)
C6_LeapDayLaw ==
  (op = "get_data_series" /\ HasCells(arg))
    => LET cells == YieldingCells(arg)
       IN  /\ Returned
           /\ ret.value.index = [k \in 1..Len(cells) |-> cells[k].at]
           /\ ret.value.values = [k \in 1..Len(cells) |-> cells[k].value]

C6_Witness ==
  /\ op = "get_data_series" /\ Returned
  /\ arg.columns = <<1900, 2000>>
  /\ arg.index = <<Date(2000, 2, 28), Date(2000, 2, 29)>>
  /\ \A c, r \in 1..2 : arg.data[c][r] # NaN
  /\ ret.value.values = <<<<11>>, <<21>>, <<22>>>>
  /\ ret.value.index[3] = Date(2000, 2, 29)

(* C5: for a daily series S over whole years without 29 February and       *)
(* without missing values, get_data_series(group_yearly_df(S)) holds       *)
(* exactly the (timestamp, value) pairs of S, each once and each value     *)
(* under its own timestamp, ordered by column (year) and then by row.      *)
C5_RoundTrip ==
  (op = "round_trip" /\ IsWholeYears(arg))
    => /\ Returned
       /\ ret.value.index = arg.index
       /\ ret.value.values = arg.values
       /\ LET cells == CellsColumnMajor(mid.value)
          IN  ret.value.index = [k \in 1..Len(cells) |-> cells[k].at]

C5_Witness ==
  /\ op = "round_trip" /\ Returned
  /\ Len(arg.index) = 3 * 365
  /\ arg.index[1].y = 1999
  /\ Len(mid.value.columns) = 3
  /\ Len(ret.value.index) = 3 * 365
  /\ ret.value.index[365 + 59] = Date(2000, 2, 28)
  /\ ret.value.index[365 + 60] = Date(2000, 3, 1)

(***************************************************************************)
(* dist_test and dists_test                                                *)
(*                                                                         *)
(* A distribution is its name and the number of parameters its fit         *)
(* returns (shapes, loc, scale).  scipy's fit and kstest are outside the   *)
(* module: what they answer for a sample is an input of the call, ext,     *)
(* which gives every distribution name either a failure or a p-value.      *)
(* p-values and alpha are counted in hundredths.                           *)
(***************************************************************************)
Dist(name, nparams) == [name |-> name, nparams |-> nparams]

norm == Dist("norm", 2)
gamma == Dist("gamma", 3)
genextreme == Dist("genextreme", 3)
pearson3 == Dist("pearson3", 3)
fisk == Dist("fisk", 3)
lognorm == Dist("lognorm", 3)
logistic == Dist("logistic", 2)
genlogistic == Dist("genlogistic", 3)
expon == Dist("expon", 2)

DefaultAlpha == 5

DefaultDistributions_short ==
  <<norm, gamma, genextreme, pearson3, fisk, lognorm, logistic>>

DefaultDistributions ==
  <<norm, gamma, genextreme, pearson3, fisk, lognorm, logistic, genlogistic>>

(* An optional argument: <<>> when left out, <<v>> when given *)
OrDefault(opt, default) == IF opt = <<>> THEN default ELSE opt[1]

(* dist.fit(series, scale=std(series)): the fitted parameters *)
Fitted(dist) == [i \in 1..dist.nparams |-> i]

dist_test_le(dist, alpha, ext) ==
  IF ~ext[dist.name].ok THEN Raise("FitError", <<>>)
  ELSE LET ks == ext[dist.name].p
       IN  Return(<<dist.name, ks, ks <= OrDefault(alpha, DefaultAlpha),
                    Fitted(dist)>>, <<>>)

dist_test(dist, alpha, ext) ==
  IF ~ext[dist.name].ok THEN Raise("FitError", <<>>)
  ELSE LET fitted == Fitted(dist)
           dist_name == dist.name
           ks == ext[dist.name].p
           rej_h0 == ks < OrDefault(alpha, DefaultAlpha)
       IN  Return(<<dist_name, ks, rej_h0, fitted>>, <<>>)

ParamName(i) == "Param " \o ToString(i)

(* len(range(n)): a negative n gives the empty range *)
RangeLen(n) == IF n < 0 THEN 0 ELSE n

Max(S) == CHOOSE x \in S : \A y \in S : y <= x

(* DataFrame(rows): one column per tuple position, as many as the longest  *)
(* tuple has, shorter tuples padded with missing cells; columns 0, 1, ...  *)
FrameOfTuples(rows) ==
  LET ncols == IF Len(rows) = 0 THEN 0
               ELSE Max({Len(rows[r]) : r \in 1..Len(rows)})
  IN  DataFrame([r \in 1..Len(rows) |-> r - 1],
                [c \in 1..ncols |-> ToString(c - 1)],
                [c \in 1..ncols |->
                  [r \in 1..Len(rows) |->
                    IF c <= Len(rows[r]) THEN <<rows[r][c]>> ELSE NaN]])

(* df.rename(columns=dict(zip(df.columns, cols))) *)
RenameColumns(df, cols) ==
  DataFrame(df.index,
            [c \in 1..Len(df.columns) |->
              IF c <= Len(cols) THEN cols[c] ELSE df.columns[c]],
            df.data)

(* df.set_index(name), for a name among the columns *)
SetIndex(df, name) ==
  LET at == CHOOSE c \in 1..Len(df.columns) : df.columns[c] = name
      rest == SelectSeq(Indices(df.columns), LAMBDA c : c # at)
  IN  DataFrame([r \in 1..Len(df.index) |-> df.data[at][r][1]],
                [k \in 1..Len(rest) |-> df.columns[rest[k]]],
                [k \in 1..Len(rest) |-> df.data[rest[k]]])

(* df[name] = values, for a new column *)
AddColumn(df, name, values) ==
  DataFrame(df.index, Append(df.columns, name),
            Append(df.data, [r \in 1..Len(values) |-> <<values[r]>>]))

dists_test(distributions, alpha, ext) ==
  LET ds == OrDefault(distributions, DefaultDistributions)
      results == [i \in 1..Len(ds) |-> dist_test(ds[i], alpha, ext)]
      df == FrameOfTuples([i \in 1..Len(ds) |-> results[i].value])
      cols == <<"Distribution", "KS p-value", "Reject H0">>
                \o [i \in 1..RangeLen(Len(df.columns) - 3) |-> ParamName(i)]
      renamed == RenameColumns(df, cols)
  IN  IF \E i \in 1..Len(ds) : results[i].kind = "raise"
        THEN results[CHOOSE i \in 1..Len(ds) :
                       /\ results[i].kind = "raise"
                       /\ \A j \in 1..(i - 1) : results[j].kind = "return"]
      ELSE IF cols[1] \notin Range(renamed.columns)
        THEN Raise("KeyError", <<>>)
      ELSE IF Len(ds) # Len(renamed.index) THEN Raise("ValueError", <<>>)
      ELSE Return(AddColumn(SetIndex(renamed, cols[1]), "Dist", ds), <<>>)

(***************************************************************************)
(* Inputs of the fit-testers.                                              *)
(***************************************************************************)
Candidates == Range(DefaultDistributions) \cup {expon}

CandidateOrder == DefaultDistributions \o <<expon>>

PValues == <<0, 4, 5, 6, 100>>

(* What scipy answers: the p-values rotate over the candidates from seed   *)
(* on, and the fit of the distribution named failing, if any, raises.      *)
External(seed, failing) ==
  [n \in {d.name : d \in Candidates} |->
    LET k == CHOOSE i \in 1..Len(CandidateOrder) : CandidateOrder[i].name = n
    IN  [ok |-> n # failing, p |-> PValues[((seed + k) % Len(PValues)) + 1]]]

Externals ==
  {External(seed, failing) :
     seed \in 0..(Len(PValues) - 1),
     failing \in {"none"} \cup {d.name : d \in Candidates}}

Alphas == {<<>>, <<0>>, <<1>>, <<5>>, <<6>>}

CallDistTest ==
  /\ pc = "idle"
  /\ \E d \in Candidates, a \in Alphas, e \in Externals :
       Call("dist_test", [dist |-> d, alpha |-> a, ext |-> e], dist_test(d, a, e))

DistsTestCall(ds, a, e) ==
  Call("dists_test", [distributions |-> ds, alpha |-> a, ext |-> e],
       dists_test(ds, a, e))

CallDistsTest ==
  /\ pc = "idle"
  /\ \E a \in {<<>>, <<6>>}, e \in Externals :
       \/ DistsTestCall(<<>>, a, e)
       \/ \E n \in 0..MaxDists : \E l \in [1..n -> Candidates] :
            DistsTestCall(<<l>>, a, e)

NextDist == CallDistTest \/ CallDistsTest

SpecDist == Init /\ [][NextDist]_vars

(***************************************************************************)
(* Properties of validate_index.                                           *)
(***************************************************************************)
IsDatetimeTyped(x) ==
  x.tag = "DatetimeIndex" /\ \A i \in 1..Len(x.labels) : x.labels[i].t = "ts"

(* The strings of StrLabels that name no instant: "abc" is no date and     *)
(* 2001 has no 29 February.                                                *)
Unparsable ==
  {StrLabel(<<"a", "b", "c">>),
   StrLabel(<<"2", "0", "0", "1", "-", "0", "2", "-", "2", "9">>)}

AllParsable(x) == \A i \in 1..Len(LabelsOf(x)) : LabelsOf(x)[i] \notin Unparsable

Coerced ==
  /\ Returned
  /\ IsDatetimeTyped(ret.value)
  /\ Len(ret.value.labels) = Len(LabelsOf(arg))
  /\ ret.log = <<CoercionInfo(arg)>>

CopiedSilently == Returned /\ ret.value = arg /\ ret.log = <<>>

C9_RejectBelowAlpha ==
  (op = "dist_test" /\ Returned)
    => LET alpha == IF arg.alpha = <<>> THEN 5 ELSE arg.alpha[1]
       IN  /\ Len(ret.value) = 4
           /\ ret.value[1] = arg.dist.name
           /\ ret.value[2] = arg.ext[arg.dist.name].p
           /\ ret.value[2] \in 0..100
           /\ ret.value[3] = (ret.value[2] < alpha)
           /\ Len(ret.value[4]) = arg.dist.nparams

C9_Witness ==
  /\ op = "dist_test" /\ Returned
  /\ arg.alpha = <<>>
  /\ ret.value[1] = "norm"
  /\ ret.value[2] = 5
  /\ ret.value[3] = FALSE

ColumnAt(table, name) ==
  CHOOSE c \in 1..Len(table.columns) : table.columns[c] = name

ParamColumns(table) ==
  {c \in 1..Len(table.columns) :
     \E i \in 1..Len(table.columns) : table.columns[c] = ParamName(i)}

CandidatesOf(call) ==
  IF call.distributions = <<>>
    THEN <<norm, gamma, genextreme, pearson3, fisk, lognorm, logistic,
           genlogistic>>
    ELSE call.distributions[1]

(* C7: the table of dists_test has as many 'Param i' columns as the        *)
(* candidate with the most parameters has parameters, one parameter per    *)
(* column, the trailing columns of a shorter row missing.                  *)
C7_OneColumnPerParameter ==
  (op = "dists_test" /\ Returned)
    => LET ds == CandidatesOf(arg)
           most == Max({ds[i].nparams : i \in 1..Len(ds)})
           t == ret.value
       IN  /\ Cardinality(ParamColumns(t)) = most
           /\ \A k \in 1..most :
                /\ ParamName(k) \in Range(t.columns)
                /\ \A i \in 1..Len(ds) :
                     t.data[ColumnAt(t, ParamName(k))][i] =
                       IF k <= ds[i].nparams THEN <<Fitted(ds[i])[k]>> ELSE NaN

(* C8: without a distribution list dists_test returns 8 rows, one per      *)
(* default distribution in the default order; with a list, one row per     *)
(* candidate in the list's order.  Each row is indexed by its              *)
(* distribution's name and holds the distribution object in 'Dist'.        *)
C8_OneRowPerCandidate ==
  (op = "dists_test" /\ Returned)
    => LET ds == CandidatesOf(arg)
           t == ret.value
       IN  /\ arg.distributions = <<>> => Len(t.index) = 8
           /\ t.index = [i \in 1..Len(ds) |-> ds[i].name]
           /\ "Dist" \in Range(t.columns)
           /\ t.data[ColumnAt(t, "Dist")] = [i \in 1..Len(ds) |-> <<ds[i]>>]
           /\ t.data[ColumnAt(t, "KS p-value")] =
                [i \in 1..Len(ds) |-> <<arg.ext[ds[i].name].p>>]

C8_Witness ==
  /\ op = "dists_test" /\ Returned
  /\ arg.distributions = <<>>
  /\ ret.value.index = <<"norm", "gamma", "genextreme", "pearson3", "fisk",
                         "lognorm", "logistic", "genlogistic">>
  /\ ret.value.data[ColumnAt(ret.value, "Dist")][5] = <<fisk>>

====
